---------------------------- MODULE Spec2Model ----------------------------
(***************************************************************************)
(* State machine of the ambient-sound playback engine of                   *)
(* src/src/lib/AudioStateManager.ts: the reducer (audioReducer), the       *)
(* crossfade looping of one audio element (attachCrossfadeListener) and    *)
(* the session manager (class AudioStateManager).                          *)
(*                                                                         *)
(* Numbers.  Every volume of the program is a real in [0,1] or a percent   *)
(* in [0,100].  A real x that is a track volume, a master volume or a      *)
(* stored percent is represented by the integer 100*x (0.5 is 50, the      *)
(* stored percent 50 is 5000).  The gain of an audio element               *)
(* (HTMLAudioElement.volume) is a product of two such numbers and is       *)
(* represented by the integer 10000*x, so that volume * masterVolume is    *)
(* the exact integer product.  Times are milliseconds.                     *)
(*                                                                         *)
(* Audio elements are objects with identity: they live in `audios`, keyed  *)
(* by a handle, and a track or a fade refers to them by handle.            *)
(***************************************************************************)
EXTENDS Integers, Sequences, FiniteSets, TLC

(***************************************************************************)
(* Bounds of the model.                                                    *)
(***************************************************************************)
\* audio elements alive at the same time
MaxAudios == 5
\* crossfades in flight at the same time
MaxFades == 1
\* audio elements alive when a crossfade or an error recovery creates one more
MaxLooping == 2
\* replacements of one element, by crossfade or error recovery, in a row
MaxGeneration == 1
\* steps of the clock
MaxClockSteps == 1
\* one step of the clock, 5 minutes in ms
ClockStep == 5 * 60 * 1000

(***************************************************************************)
(* Program constants.                                                      *)
(***************************************************************************)
MAX_CONCURRENT_SOUNDS == 3
\* the literal 100 of `volume * 100` and `savedState.volume / 100`
Hundred == 100
\* the default track volume 1 (in hundredths)
DefaultVolume == 100
\* initialAudioState.masterVolume, 0.7 (in hundredths)
InitialMasterVolume == 70
\* fadeSteps
fadeSteps == 60
\* null of timeRemaining / timerEndTime
Null == -1

(***************************************************************************)
(* The external catalog ("@/data/sounds"): the ids of the sounds, in the   *)
(* order of the array.  The audioSrc of a sound contains its own id and    *)
(* no other sound's id or name.                                            *)
(***************************************************************************)
sounds == <<"rain", "fire", "wind", "waves">>

SoundIds == {sounds[i] : i \in 1..Len(sounds)}

\* an id no catalog sound has
UnknownId == "ghost"

\* every id that can be a key of soundStates, in a fixed order
AllIds == sounds \o <<UnknownId>>

\* the functions that subscribe to the state
ListenerIds == {"provider", "probe"}

(***************************************************************************)
(* Inputs of the operations.                                               *)
(***************************************************************************)
\* track volumes a caller passes (0, 0.5, 1)
Volumes == {0, 50, 100}

\* master volumes a caller passes (0.5, 1)
MasterVolumes == {50, 100}

Entry(id, volume) == [id |-> id, volume |-> volume]

\* SoundMix.sounds of the mixes a caller applies
Mixes ==
  { <<>>,
    <<Entry("rain", 50), Entry("wind", 30)>>,
    <<Entry("fire", 100)>>,
    <<Entry("rain", 50), Entry("rain", 100)>>,
    <<Entry("rain", 100), Entry("fire", 100), Entry("wind", 100), Entry("waves", 50)>>,
    <<Entry(UnknownId, 50)>> }

\* one persisted key: sound id -> {volume, isPlaying}
Saved(id, volume, playing) == [id |-> id, st |-> [volume |-> volume, isPlaying |-> playing]]

NoItem == [kind |-> "none", entries |-> <<>>]
Malformed == [kind |-> "malformed", entries |-> <<>>]
Json(entries) == [kind |-> "json", entries |-> entries]

\* contents of localStorage[LOCAL_STORAGE_KEY] the program may start with
PersistedChoices ==
  { NoItem,
    Malformed,
    Json(<<Saved("rain", 5000, TRUE)>>),
    Json(<<Saved("rain", 0, TRUE), Saved("fire", 10000, FALSE)>>),
    Json(<<Saved("waves", 5000, TRUE), Saved("wind", 5000, TRUE),
           Saved("fire", 10000, TRUE), Saved("rain", 5000, FALSE)>>) }

\* what one sound id may carry in the persisted object: nothing, or an entry
PersistedEntries(id) ==
  {<<>>, <<Saved(id, 0, TRUE)>>, <<Saved(id, 5000, TRUE)>>, <<Saved(id, 10000, FALSE)>>}

\* the persisted objects over the ids of order, keys in that order
RECURSIVE PersistedObjects(_)
PersistedObjects(order) ==
  IF order = <<>> THEN {<<>>}
  ELSE {e \o rest : e \in PersistedEntries(Head(order)), rest \in PersistedObjects(Tail(order))}

Reverse(s) == [i \in 1..Len(s) |-> s[Len(s) + 1 - i]]

\* every content the program may find at startup
StartupChoices ==
  {NoItem, Malformed}
    \cup {Json(es) : es \in PersistedObjects(AllIds) \cup PersistedObjects(Reverse(AllIds))}

\* SoundMix: a name and the sounds of the mix
Preset(name, mix) == [name |-> name, sounds |-> mix]

PresetNames == {"calm", "focus", "sleep"}

\* the mixes saveCustomMix is called with
PresetChoices ==
  {Preset(n, m) : n \in PresetNames,
                  m \in {<<Entry("rain", 50)>>, <<Entry("fire", 100)>>}}

\* contents of localStorage[CUSTOM_MIXES_KEY] at startup: names are unique
PresetItems ==
  { NoItem,
    Json(<<>>),
    Json(<<Preset("calm", <<Entry("rain", 50)>>)>>),
    Json(<<Preset("focus", <<Entry("fire", 100)>>),
           Preset("calm", <<Entry("rain", 50)>>)>>) }

(***************************************************************************)
(* State.                                                                  *)
(***************************************************************************)
VARIABLES
  activeSounds,   \* AudioState.activeSounds: Seq of [sound, audio, volume]
  masterVolume,   \* AudioState.masterVolume
  isPlaying,      \* AudioState.isPlaying
  timer,          \* AudioState.timer
  timeRemaining,  \* AudioState.timeRemaining (Null or ms)
  timerEndTime,   \* AudioState.timerEndTime (Null or ms)
  soundStates,    \* AudioState.soundStates: id -> [volume, isPlaying?]
  storage,        \* localStorage[LOCAL_STORAGE_KEY]
  audios,         \* the audio elements alive: handle -> element
  fades,          \* the setInterval closures of the crossfades in flight
  timerInterval,  \* AudioStateManager.timerInterval is not null
  intervals,      \* how many intervals set by startTimer have not been cleared
  listeners,      \* AudioStateManager.listeners, in the order of insertion
  customMixes,    \* AudioStateManager.customMixes: Seq of [name, sounds]
  mixStorage,     \* localStorage[CUSTOM_MIXES_KEY]
  log,            \* the listener calls of the last handler: [listener, state]
  now,            \* Date.now()
  phase,          \* "boot" before the constructor has run, then "ready"
  last            \* the operation that led to this state

vars == <<activeSounds, masterVolume, isPlaying, timer, timeRemaining,
          timerEndTime, soundStates, storage, audios, fades, timerInterval,
          intervals, listeners, customMixes, mixStorage, log, now, phase, last>>

\* the program's state as one value
World ==
  [ activeSounds |-> activeSounds, masterVolume |-> masterVolume,
    isPlaying |-> isPlaying, timer |-> timer, timeRemaining |-> timeRemaining,
    timerEndTime |-> timerEndTime, soundStates |-> soundStates,
    storage |-> storage, audios |-> audios, fades |-> fades,
    timerInterval |-> timerInterval, intervals |-> intervals,
    listeners |-> listeners,
    customMixes |-> customMixes, mixStorage |-> mixStorage, log |-> log,
    now |-> now ]

\* the one element of a set: Only({F(x) : x \in {e}}) is F(e), with e
\* evaluated once
Only(S) == CHOOSE x \in S : TRUE

\* the program's state when a handler starts to run
Called == [World EXCEPT !.log = <<>>]

(***************************************************************************)
(* Audio elements.                                                         *)
(***************************************************************************)
\* the handle `new Audio(...)` gets: the least one not in use
NewHandle(w) ==
  CHOOSE h \in 1..(Cardinality(DOMAIN w.audios) + 1) : h \notin DOMAIN w.audios

AddAudio(w, h, el) ==
  [w EXCEPT !.audios = [x \in DOMAIN w.audios \cup {h} |->
                          IF x = h THEN el ELSE w.audios[x]]]

\* HTMLAudioElement.pause()
Pause(as, h) == [as EXCEPT ![h].paused = TRUE]

\* HTMLAudioElement.play(): an element with an empty src does not start
Play(as, h) ==
  IF as[h].src THEN [as EXCEPT ![h].paused = FALSE, ![h].played = TRUE] ELSE as

\* audio.src = ""
Release(as, h) == [as EXCEPT ![h].src = FALSE]

\* attachCrossfadeListener closes over sound, volume, masterVolume
attachCrossfadeListener(el, volume, mv) ==
  [el EXCEPT !.listener = TRUE, !._crossfadeTriggered = FALSE,
             !.cVolume = volume, !.cMaster = mv]

\* new Audio(sound.audioSrc): paused, full gain, no listener, never played (its
\* position is 0); `generation` counts the replacements (crossfades, error
\* recoveries) that led to it; `canplaythrough` tells that the once-listener of
\* handleTimeUpdate is registered and has not run
NewAudio(sound) ==
  [ sound |-> sound, paused |-> TRUE, volume |-> 10000, src |-> TRUE,
    error |-> FALSE, listener |-> FALSE, _crossfadeTriggered |-> FALSE,
    cVolume |-> 0, cMaster |-> 0, generation |-> 0, played |-> FALSE,
    canplaythrough |-> FALSE ]

createAudioElement(sound, volume, mv, onCrossfade) ==
  LET audio == [NewAudio(sound) EXCEPT !.volume = volume * mv]
  IN  IF onCrossfade THEN attachCrossfadeListener(audio, volume, mv) ELSE audio

(***************************************************************************)
(* localStorage.                                                           *)
(***************************************************************************)
\* JSON.stringify(soundStates): the keys with their entries
Stringify(ss) ==
  LET ids == SelectSeq(AllIds, LAMBDA s : s \in DOMAIN ss)
  IN  Json([i \in 1..Len(ids) |-> [id |-> ids[i], st |-> ss[ids[i]]]])

\* a function without the key k (delete obj[k])
Delete(f, k) == [x \in DOMAIN f \ {k} |-> f[x]]

\* { ...obj, [k]: v }
Put(f, k, v) == [x \in DOMAIN f \cup {k} |-> IF x = k THEN v ELSE f[x]]

\* { ...entry, field: value } for an entry that may be undefined
WithVolume(ss, k, v) ==
  IF k \in DOMAIN ss /\ "isPlaying" \in DOMAIN ss[k]
  THEN [volume |-> v, isPlaying |-> ss[k].isPlaying]
  ELSE [volume |-> v]

WithPlaying(e, p) == [volume |-> e.volume, isPlaying |-> p]

Empty == [x \in {} |-> 0]

(***************************************************************************)
(* audioReducer.                                                           *)
(***************************************************************************)
\* activeSounds.findIndex(as => as.sound.id === id), 0 for -1
FindIndex(tracks, id) ==
  IF \E i \in 1..Len(tracks) : tracks[i].sound = id
  THEN CHOOSE i \in 1..Len(tracks) :
         tracks[i].sound = id /\ \A j \in 1..(i-1) : tracks[j].sound # id
  ELSE 0

\* array.splice(i, 1)
Splice(s, i) == [j \in 1..(Len(s) - 1) |-> IF j < i THEN s[j] ELSE s[j + 1]]

\* the branch of TOGGLE_SOUND for a sound that is active, at existingIndex
ToggleOff(w, sound, existingIndex) ==
  LET audioElement == w.activeSounds[existingIndex].audio
      newActiveSounds == Splice(w.activeSounds, existingIndex)
      newSoundStates == Delete(w.soundStates, sound)
  IN  [w EXCEPT
        !.audios = Release(Pause(w.audios, audioElement), audioElement),
        !.activeSounds = newActiveSounds,
        !.soundStates = newSoundStates,
        !.storage = Stringify(newSoundStates),
        !.isPlaying = IF Len(newActiveSounds) = 0 THEN FALSE ELSE w.isPlaying]

\* the branch of TOGGLE_SOUND for a sound that is not active, below the limit
ToggleOn(w, sound) ==
  LET volume == IF sound \in DOMAIN w.soundStates /\ w.soundStates[sound].volume # 0
                THEN w.soundStates[sound].volume \div Hundred
                ELSE DefaultVolume
      h == NewHandle(w)
      audio == createAudioElement(sound, volume, w.masterVolume, TRUE)
      newSoundStates == Put(w.soundStates, sound,
                            [volume |-> volume * Hundred, isPlaying |-> w.isPlaying])
      w1 == AddAudio(w, h, audio)
  IN  [w1 EXCEPT
        !.audios = IF w.isPlaying THEN Play(w1.audios, h) ELSE w1.audios,
        !.activeSounds = Append(w.activeSounds,
                                [sound |-> sound, audio |-> h, volume |-> volume]),
        !.soundStates = newSoundStates,
        !.storage = Stringify(newSoundStates)]

\* TOGGLE_SOUND without the check of MAX_CONCURRENT_SOUNDS
TOGGLE_SOUND_unbounded(w, sound) ==
  LET existingIndex == FindIndex(w.activeSounds, sound) IN
  IF existingIndex # 0 THEN ToggleOff(w, sound, existingIndex)
  ELSE ToggleOn(w, sound)

\* TOGGLE_SOUND that stops the session when it turns a sound down at the limit
TOGGLE_SOUND_pausing(w, sound) ==
  LET existingIndex == FindIndex(w.activeSounds, sound) IN
  IF existingIndex # 0 THEN ToggleOff(w, sound, existingIndex)
  ELSE IF Len(w.activeSounds) >= MAX_CONCURRENT_SOUNDS
       THEN [w EXCEPT !.isPlaying = FALSE]
  ELSE ToggleOn(w, sound)

\* TOGGLE_SOUND that keeps the soundStates entry of the sound it removes
TOGGLE_SOUND_keeping(w, sound) ==
  LET existingIndex == FindIndex(w.activeSounds, sound) IN
  IF existingIndex # 0
  THEN [ToggleOff(w, sound, existingIndex) EXCEPT
          !.soundStates = w.soundStates, !.storage = Stringify(w.soundStates)]
  ELSE IF Len(w.activeSounds) >= MAX_CONCURRENT_SOUNDS THEN w
  ELSE ToggleOn(w, sound)

TOGGLE_SOUND(w, sound) ==
  LET existingIndex == FindIndex(w.activeSounds, sound) IN
  IF existingIndex # 0 THEN ToggleOff(w, sound, existingIndex)
  ELSE IF Len(w.activeSounds) >= MAX_CONCURRENT_SOUNDS THEN w
  ELSE ToggleOn(w, sound)

\* the handles of the tracks of sound id
AudiosOf(tracks, id) == {tracks[i].audio : i \in {j \in 1..Len(tracks) : tracks[j].sound = id}}

AllAudios(tracks) == {tracks[i].audio : i \in 1..Len(tracks)}

SetGain(as, hs, gain) == [h \in DOMAIN as |-> IF h \in hs THEN [as[h] EXCEPT !.volume = gain] ELSE as[h]]

\* SET_VOLUME without the test on the sound id
SET_VOLUME_everyTrack(w, soundId, volume) ==
  LET newSoundStates == Put(w.soundStates, soundId,
                            WithVolume(w.soundStates, soundId, volume * Hundred))
  IN  [w EXCEPT
        !.audios = SetGain(w.audios, AllAudios(w.activeSounds), volume * w.masterVolume),
        !.activeSounds = [i \in 1..Len(w.activeSounds) |->
                            [w.activeSounds[i] EXCEPT !.volume = volume]],
        !.soundStates = newSoundStates,
        !.storage = Stringify(newSoundStates)]

SET_VOLUME(w, soundId, volume) ==
  LET newActiveSounds == [i \in 1..Len(w.activeSounds) |->
                            IF w.activeSounds[i].sound = soundId
                            THEN [w.activeSounds[i] EXCEPT !.volume = volume]
                            ELSE w.activeSounds[i]]
      newSoundStates == Put(w.soundStates, soundId,
                            WithVolume(w.soundStates, soundId, volume * Hundred))
  IN  [w EXCEPT
        !.audios = SetGain(w.audios, AudiosOf(w.activeSounds, soundId),
                           volume * w.masterVolume),
        !.activeSounds = newActiveSounds,
        !.soundStates = newSoundStates,
        !.storage = Stringify(newSoundStates)]

\* the track that writes the gain of element h last in activeSounds.map
LastHolder(tracks, h) ==
  CHOOSE i \in 1..Len(tracks) :
    tracks[i].audio = h /\ \A j \in (i+1)..Len(tracks) : tracks[j].audio # h

\* SET_MASTER_VOLUME that stores the master volume and leaves the gains
SET_MASTER_VOLUME_stored(w, volume) == [w EXCEPT !.masterVolume = volume]

SET_MASTER_VOLUME(w, volume) ==
  [w EXCEPT
    !.audios = [h \in DOMAIN w.audios |->
                  IF h \in AllAudios(w.activeSounds)
                  THEN [w.audios[h] EXCEPT !.volume =
                          w.activeSounds[LastHolder(w.activeSounds, h)].volume * volume]
                  ELSE w.audios[h]],
    !.masterVolume = volume]

\* the play branch of TOGGLE_PLAY_PAUSE and PLAY_ALL_SOUNDS: play(), after
\* setting the source again when it is empty
PlayOrReset(el) ==
  IF el.src THEN [el EXCEPT !.paused = FALSE, !.played = TRUE]
  ELSE [el EXCEPT !.src = TRUE, !.error = FALSE, !.paused = FALSE, !.played = TRUE]

PlayAll(as, hs) == [h \in DOMAIN as |-> IF h \in hs THEN PlayOrReset(as[h]) ELSE as[h]]

PauseAll(as, hs) == [h \in DOMAIN as |-> IF h \in hs THEN [as[h] EXCEPT !.paused = TRUE] ELSE as[h]]

MarkPlaying(ss, p) == [k \in DOMAIN ss |-> WithPlaying(ss[k], p)]

\* TOGGLE_PLAY_PAUSE that leaves the isPlaying flags of soundStates alone
TOGGLE_PLAY_PAUSE_flagsKept(w) ==
  LET newIsPlaying == ~w.isPlaying
  IN  [w EXCEPT
        !.audios = IF newIsPlaying THEN PlayAll(w.audios, AllAudios(w.activeSounds))
                   ELSE PauseAll(w.audios, AllAudios(w.activeSounds)),
        !.storage = Stringify(w.soundStates),
        !.isPlaying = newIsPlaying]

TOGGLE_PLAY_PAUSE(w) ==
  LET newIsPlaying == ~w.isPlaying
      newSoundStates == MarkPlaying(w.soundStates, newIsPlaying)
  IN  [w EXCEPT
        !.audios = IF newIsPlaying THEN PlayAll(w.audios, AllAudios(w.activeSounds))
                   ELSE PauseAll(w.audios, AllAudios(w.activeSounds)),
        !.soundStates = newSoundStates,
        !.storage = Stringify(newSoundStates),
        !.isPlaying = newIsPlaying]

Minutes(t) ==
  CASE t = "5min" -> 5 [] t = "15min" -> 15 [] t = "30min" -> 30
    [] t = "45min" -> 45 [] t = "60min" -> 60 [] t = "75min" -> 75
    [] t = "90min" -> 90 [] OTHER -> 0

\* SET_TIMER that counts the deadline from 0 rather than from Date.now()
SET_TIMER_fromZero(w, t) ==
  IF t = "endless"
  THEN [w EXCEPT !.timer = "endless", !.timeRemaining = Null, !.timerEndTime = Null]
  ELSE LET milliseconds == Minutes(t) * 60 * 1000
       IN  [w EXCEPT !.timer = t, !.timeRemaining = milliseconds,
                     !.timerEndTime = milliseconds]

SET_TIMER(w, t) ==
  IF t = "endless"
  THEN [w EXCEPT !.timer = "endless", !.timeRemaining = Null, !.timerEndTime = Null]
  ELSE LET milliseconds == Minutes(t) * 60 * 1000
       IN  [w EXCEPT !.timer = t, !.timeRemaining = milliseconds,
                     !.timerEndTime = w.now + milliseconds]

\* CANCEL_TIMER that leaves timeRemaining as it is
CANCEL_TIMER_keepsRemaining(w) ==
  [w EXCEPT !.timer = "endless", !.timerEndTime = Null]

CANCEL_TIMER(w) ==
  [w EXCEPT !.timer = "endless", !.timeRemaining = Null, !.timerEndTime = Null]

UPDATE_TIMER(w, remaining) == [w EXCEPT !.timeRemaining = remaining]

PAUSE_ALL_SOUNDS(w) ==
  LET newSoundStates == MarkPlaying(w.soundStates, FALSE)
  IN  [w EXCEPT
        !.audios = PauseAll(w.audios, AllAudios(w.activeSounds)),
        !.soundStates = newSoundStates,
        !.storage = Stringify(newSoundStates),
        !.isPlaying = FALSE]

PLAY_ALL_SOUNDS(w) ==
  LET newSoundStates == MarkPlaying(w.soundStates, TRUE)
  IN  [w EXCEPT
        !.audios = PlayAll(w.audios, AllAudios(w.activeSounds)),
        !.soundStates = newSoundStates,
        !.storage = Stringify(newSoundStates),
        !.isPlaying = TRUE]

ActiveIds(tracks) == {tracks[i].sound : i \in 1..Len(tracks)}

MixIds(mixSounds) == {mixSounds[i].id : i \in 1..Len(mixSounds)}

\* currentActiveSoundMap.get(id): Map.set keeps the last track of an id
LastTrackOf(tracks, id) ==
  tracks[CHOOSE i \in 1..Len(tracks) :
           tracks[i].sound = id /\ \A j \in (i+1)..Len(tracks) : tracks[j].sound # id]

\* soundsToRemove.forEach: one track per id that the mix does not list
RemoveSounds(w, ids) ==
  LET hs == {LastTrackOf(w.activeSounds, id).audio : id \in ids}
  IN  [w EXCEPT
        !.audios = [h \in DOMAIN w.audios |->
                      IF h \in hs THEN [w.audios[h] EXCEPT !.paused = TRUE, !.src = FALSE]
                      ELSE w.audios[h]],
        !.activeSounds = SelectSeq(w.activeSounds, LAMBDA t : t.sound \notin ids),
        !.soundStates = [k \in DOMAIN w.soundStates \ ids |-> w.soundStates[k]]]

\* one step of mixSounds.forEach; `state` is the state the reducer was given
ProcessMixSound(w, state, e) ==
  IF e.id \in ActiveIds(state.activeSounds) THEN
    [w EXCEPT
      !.audios = SetGain(w.audios, AudiosOf(w.activeSounds, e.id),
                         e.volume * state.masterVolume),
      !.activeSounds = [i \in 1..Len(w.activeSounds) |->
                          IF w.activeSounds[i].sound = e.id
                          THEN [w.activeSounds[i] EXCEPT !.volume = e.volume]
                          ELSE w.activeSounds[i]],
      !.soundStates = Put(w.soundStates, e.id,
                          WithVolume(w.soundStates, e.id, e.volume * Hundred))]
  ELSE IF e.id \notin SoundIds THEN w
  ELSE
    LET h == NewHandle(w)
        audio == createAudioElement(e.id, e.volume, state.masterVolume, FALSE)
        w1 == AddAudio(w, h, audio)
    IN  [w1 EXCEPT
          !.audios = IF state.isPlaying THEN Play(w1.audios, h) ELSE w1.audios,
          !.activeSounds = Append(w.activeSounds,
                                  [sound |-> e.id, audio |-> h, volume |-> e.volume]),
          !.soundStates = Put(w.soundStates, e.id,
                              [volume |-> e.volume * Hundred,
                               isPlaying |-> state.isPlaying])]

RECURSIVE ProcessMix(_, _, _)
ProcessMix(w, state, mixSounds) ==
  IF mixSounds = <<>> THEN w
  ELSE ProcessMix(ProcessMixSound(w, state, Head(mixSounds)), state, Tail(mixSounds))

APPLY_MIX(w, mixSounds) ==
  LET soundsToRemove == ActiveIds(w.activeSounds) \ MixIds(mixSounds)
      w1 == ProcessMix(RemoveSounds(w, soundsToRemove), w, mixSounds)
  IN  [w1 EXCEPT !.storage = Stringify(w1.soundStates)]

INITIALIZE_STATE(w, savedState) == [w EXCEPT !.soundStates = savedState]

\* the switch of audioReducer
ReducerCase(w, action) ==
  CASE action.type = "TOGGLE_SOUND" -> TOGGLE_SOUND(w, action.sound)
    [] action.type = "SET_VOLUME" -> SET_VOLUME(w, action.soundId, action.volume)
    [] action.type = "SET_MASTER_VOLUME" -> SET_MASTER_VOLUME(w, action.volume)
    [] action.type = "TOGGLE_PLAY_PAUSE" -> TOGGLE_PLAY_PAUSE(w)
    [] action.type = "SET_TIMER" -> SET_TIMER(w, action.timer)
    [] action.type = "CANCEL_TIMER" -> CANCEL_TIMER(w)
    [] action.type = "UPDATE_TIMER" -> UPDATE_TIMER(w, action.timeRemaining)
    [] action.type = "PAUSE_ALL_SOUNDS" -> PAUSE_ALL_SOUNDS(w)
    [] action.type = "PLAY_ALL_SOUNDS" -> PLAY_ALL_SOUNDS(w)
    [] action.type = "APPLY_MIX" -> APPLY_MIX(w, action.mix)
    [] action.type = "INITIALIZE_STATE" -> INITIALIZE_STATE(w, action.savedState)
    [] action.type = "SAVE_CUSTOM_MIX" -> w
    [] OTHER -> w

audioReducer(state, action) == Only({ReducerCase(w, action) : w \in {state}})

(***************************************************************************)
(* class AudioStateManager.                                                *)
(***************************************************************************)
\* what a listener can read from the state it is called with: the fields of
\* AudioState, and whether the elements of the tracks are paused at that time
Snapshot(w) ==
  [ tracks |-> [i \in 1..Len(w.activeSounds) |->
                  [sound |-> w.activeSounds[i].sound,
                   volume |-> w.activeSounds[i].volume]],
    masterVolume |-> w.masterVolume, isPlaying |-> w.isPlaying,
    timer |-> w.timer, timeRemaining |-> w.timeRemaining,
    timerEndTime |-> w.timerEndTime, soundStates |-> w.soundStates,
    paused |-> \A i \in 1..Len(w.activeSounds) :
                 w.audios[w.activeSounds[i].audio].paused ]

\* this.listeners.forEach(listener => listener(this.state))
notify(w0) ==
  Only({ [w EXCEPT !.log = w.log \o [i \in 1..Len(w.listeners) |->
                                       [listener |-> w.listeners[i], state |-> snap]]]
         : w \in {w0}, snap \in {Snapshot(w0)} })

\* clearInterval(this.timerInterval) under if (this.timerInterval)
clearTimerInterval(w) ==
  IF w.timerInterval THEN [w EXCEPT !.intervals = @ - 1] ELSE w

\* startTimer without the clearInterval of the interval that runs
startTimer_keepPrior(w) ==
  [w EXCEPT !.timerInterval = TRUE, !.intervals = @ + 1]

\* startTimer: a running interval is cleared and a new one is started
startTimer(w) ==
  [clearTimerInterval(w) EXCEPT !.timerInterval = TRUE, !.intervals = @ + 1]

stopTimer(w) == [clearTimerInterval(w) EXCEPT !.timerInterval = FALSE]

\* localStorage.setItem(CUSTOM_MIXES_KEY, JSON.stringify(this.customMixes))
saveCustomMixesToStorage(w) == [w EXCEPT !.mixStorage = Json(w.customMixes)]

\* customMixes.findIndex(m => m.name === name): 0 when there is none
FindMix(mixes, name) ==
  IF \E i \in 1..Len(mixes) : mixes[i].name = name
  THEN CHOOSE i \in 1..Len(mixes) :
         mixes[i].name = name /\ \A j \in 1..(i - 1) : mixes[j].name # name
  ELSE 0

\* the SAVE_CUSTOM_MIX branch of dispatch always pushing the mix
StoreMix_push(w, mix) ==
  saveCustomMixesToStorage([w EXCEPT !.customMixes = Append(w.customMixes, mix)])

\* the SAVE_CUSTOM_MIX branch of dispatch
StoreMix(w, mix) ==
  LET existingIndex == FindMix(w.customMixes, mix.name)
  IN  saveCustomMixesToStorage(
        IF existingIndex # 0
        THEN [w EXCEPT !.customMixes[existingIndex] = mix]
        ELSE [w EXCEPT !.customMixes = Append(w.customMixes, mix)])

\* dispatch telling the listeners only of a state it changed
dispatch_onlyChanges(w, action) ==
  Only({ IF w1 = w THEN w1
         ELSE notify(IF action.type = "SET_TIMER" /\ action.timer # "endless"
                     THEN startTimer(w1)
                     ELSE IF action.type = "CANCEL_TIMER" THEN stopTimer(w1)
                     ELSE w1)
         : w1 \in {audioReducer(w, action)} })

dispatch(w, action) ==
  Only({ notify(IF action.type = "SET_TIMER" /\ action.timer # "endless"
                THEN startTimer(w1)
                ELSE IF action.type = "CANCEL_TIMER" THEN stopTimer(w1)
                ELSE IF action.type = "SAVE_CUSTOM_MIX" THEN StoreMix(w1, action.mix)
                ELSE w1)
         : w1 \in {audioReducer(w, action)} })

toggleSound(w, sound) == dispatch(w, [type |-> "TOGGLE_SOUND", sound |-> sound])

\* what the call toggleSound(sound) evaluates to for its caller: the method has
\* no return statement, and dispatch returns nothing either
toggleSoundReturn(w, sound) == "undefined"

setVolumeForSound(w, soundId, volume) ==
  dispatch(w, [type |-> "SET_VOLUME", soundId |-> soundId, volume |-> volume])

setMasterVolume(w, volume) == dispatch(w, [type |-> "SET_MASTER_VOLUME", volume |-> volume])

togglePlayPause(w) == dispatch(w, [type |-> "TOGGLE_PLAY_PAUSE"])

setTimer(w, t) == dispatch(w, [type |-> "SET_TIMER", timer |-> t])

cancelTimer(w) == dispatch(w, [type |-> "CANCEL_TIMER"])

pauseAllSounds(w) == dispatch(w, [type |-> "PAUSE_ALL_SOUNDS"])

playAllSounds(w) == dispatch(w, [type |-> "PLAY_ALL_SOUNDS"])

applyMix(w, mixSounds) == dispatch(w, [type |-> "APPLY_MIX", mix |-> mixSounds])

\* subscribe(listener): Set.add
saveCustomMix(w, mix) == dispatch(w, [type |-> "SAVE_CUSTOM_MIX", mix |-> mix])

deleteCustomMix(w, mixName) ==
  LET index == FindMix(w.customMixes, mixName)
  IN  IF index # 0
      THEN saveCustomMixesToStorage(
             [w EXCEPT !.customMixes = Splice(w.customMixes, index)])
      ELSE w

\* loadCustomMixes: the parsed item, or [] when it does not parse
loadCustomMixes(w) ==
  IF w.mixStorage.kind = "none" THEN w
  ELSE IF w.mixStorage.kind = "json"
       THEN [w EXCEPT !.customMixes = w.mixStorage.entries]
       ELSE [w EXCEPT !.customMixes = <<>>]

subscribe(w, listener) ==
  IF \E i \in 1..Len(w.listeners) : w.listeners[i] = listener THEN w
  ELSE [w EXCEPT !.listeners = Append(w.listeners, listener)]

\* the function subscribe returns: Set.delete
unsubscribe(w, listener) ==
  [w EXCEPT !.listeners = SelectSeq(w.listeners, LAMBDA l : l # listener)]

\* cleanup: the tracks stay in the state, with their elements paused and released
cleanup(w) ==
  LET hs == AllAudios(w.activeSounds)
      w1 == [w EXCEPT
               !.audios = [h \in DOMAIN w.audios |->
                             IF h \in hs
                             THEN [w.audios[h] EXCEPT !.paused = TRUE, !.src = FALSE]
                             ELSE w.audios[h]]]
  IN  [stopTimer(w1) EXCEPT !.listeners = <<>>]

\* handleCrossfade that calls the listeners also when it found no track
handleCrossfade_alwaysNotify(w, oldAudio, newAudio) ==
  LET byAudio == {i \in 1..Len(w.activeSounds) : w.activeSounds[i].audio = oldAudio}
      matchingSound == w.audios[newAudio].sound
      bySound == {i \in 1..Len(w.activeSounds) : w.activeSounds[i].sound = matchingSound}
      hit == IF byAudio # {} THEN byAudio
             ELSE IF matchingSound \in SoundIds THEN bySound ELSE {}
  IN  notify(
        [w EXCEPT
          !.audios = IF hit = {} THEN w.audios
                     ELSE IF w.isPlaying
                     THEN (IF w.audios[newAudio].paused THEN Play(w.audios, newAudio)
                           ELSE w.audios)
                     ELSE Pause(w.audios, newAudio),
          !.activeSounds = [i \in 1..Len(w.activeSounds) |->
                              IF i \in hit
                              THEN [w.activeSounds[i] EXCEPT !.audio = newAudio]
                              ELSE w.activeSounds[i]]])

\* handleCrossfade: the tracks that hold oldAudio get newAudio; when no track
\* holds it, the tracks of the catalog sound whose id newAudio.src includes
handleCrossfade(w, oldAudio, newAudio) ==
  LET byAudio == {i \in 1..Len(w.activeSounds) : w.activeSounds[i].audio = oldAudio}
      matchingSound == w.audios[newAudio].sound
      bySound == {i \in 1..Len(w.activeSounds) : w.activeSounds[i].sound = matchingSound}
      hit == IF byAudio # {} THEN byAudio
             ELSE IF matchingSound \in SoundIds THEN bySound ELSE {}
  IN  IF hit = {} THEN w
      ELSE notify(
           [w EXCEPT
             !.audios = IF w.isPlaying
                        THEN (IF w.audios[newAudio].paused THEN Play(w.audios, newAudio)
                              ELSE w.audios)
                        ELSE Pause(w.audios, newAudio),
             !.activeSounds = [i \in 1..Len(w.activeSounds) |->
                                 IF i \in hit
                                 THEN [w.activeSounds[i] EXCEPT !.audio = newAudio]
                                 ELSE w.activeSounds[i]]])

\* handleTimeUpdate once currentTime >= duration - 3: the crossfade starts
handleTimeUpdate(w, audio) ==
  LET el == w.audios[audio]
      newAudio == NewHandle(w)
      isCurrentlyPlaying == ~el.paused
      created == attachCrossfadeListener(
                   [NewAudio(el.sound) EXCEPT !.volume = 0,
                                              !.generation = el.generation + 1,
                                              !.canplaythrough = isCurrentlyPlaying],
                   el.cVolume, el.cMaster)
      w1 == AddAudio([w EXCEPT !.audios[audio]._crossfadeTriggered = TRUE],
                     newAudio, created)
  IN  [w1 EXCEPT
        !.audios = IF isCurrentlyPlaying THEN Play(w1.audios, newAudio) ELSE w1.audios,
        !.fades = w.fades \cup
                  {[ old |-> audio, new |-> newAudio,
                     isCurrentlyPlaying |-> isCurrentlyPlaying, currentStep |-> 0,
                     oldInitialVolume |-> el.volume,
                     targetVolume |-> el.cVolume * el.cMaster ]}]

\* the canplaythrough listener of an incoming element (once: true); it is
\* registered only when isCurrentlyPlaying, a constant of the closure
onCanPlayThrough(w, newAudio) ==
  [w EXCEPT !.audios = Play([w.audios EXCEPT ![newAudio].canplaythrough = FALSE],
                            newAudio)]

\* progress * progress of a gain g at step k: g * (k/fadeSteps)^2, rounded down
Eased(g, k) == (g * k * k) \div (fadeSteps * fadeSteps)

\* the callback of a crossfade without the clearInterval of its abort branch
fadeInterval_keepsInterval(w, f) ==
  IF ~f.isCurrentlyPlaying \/ w.audios[f.old].paused THEN
    LET w1 == [w EXCEPT
                 !.audios = Release(Pause(Pause(w.audios, f.new), f.old), f.old)]
    IN  handleCrossfade(w1, f.old, f.new)
  ELSE
    LET currentStep == f.currentStep + 1
        newVol == Eased(f.targetVolume, currentStep)
        oldVol == f.oldInitialVolume - Eased(f.oldInitialVolume, currentStep)
        as1 == [w.audios EXCEPT ![f.old].volume = oldVol, ![f.new].volume = newVol]
    IN  IF currentStep >= fadeSteps THEN
          LET w1 == [w EXCEPT
                       !.audios = [Release(Pause(as1, f.old), f.old)
                                     EXCEPT ![f.new].volume = f.targetVolume],
                       !.fades = w.fades \ {f}]
          IN  handleCrossfade(w1, f.old, f.new)
        ELSE [w EXCEPT !.audios = as1,
                       !.fades = (w.fades \ {f}) \cup
                                 {[f EXCEPT !.currentStep = currentStep]}]

\* one call of the setInterval callback of a crossfade
fadeInterval(w, f) ==
  IF ~f.isCurrentlyPlaying \/ w.audios[f.old].paused THEN
    LET w1 == [w EXCEPT
                 !.audios = Release(Pause(Pause(w.audios, f.new), f.old), f.old),
                 !.fades = w.fades \ {f}]
    IN  handleCrossfade(w1, f.old, f.new)
  ELSE
    LET currentStep == f.currentStep + 1
        newVol == Eased(f.targetVolume, currentStep)
        oldVol == f.oldInitialVolume - Eased(f.oldInitialVolume, currentStep)
        as1 == [w.audios EXCEPT ![f.old].volume = oldVol, ![f.new].volume = newVol]
    IN  IF currentStep >= fadeSteps THEN
          LET w1 == [w EXCEPT
                       !.audios = [Release(Pause(as1, f.old), f.old)
                                     EXCEPT ![f.new].volume = f.targetVolume],
                       !.fades = w.fades \ {f}]
          IN  handleCrossfade(w1, f.old, f.new)
        ELSE [w EXCEPT !.audios = as1,
                       !.fades = (w.fades \ {f}) \cup
                                 {[f EXCEPT !.currentStep = currentStep]}]

\* handleAudioError for an element whose error is set
handleAudioError(w, audio) ==
  LET el == w.audios[audio]
      w0 == [w EXCEPT !.audios[audio].error = TRUE]
  IN  IF el._crossfadeTriggered THEN w0
      ELSE
        LET replacementAudio == NewHandle(w0)
            created == attachCrossfadeListener(
                         [NewAudio(el.sound) EXCEPT !.volume = el.volume,
                                                    !.generation = el.generation + 1],
                         el.cVolume, el.cMaster)
            w1 == AddAudio(w0, replacementAudio, created)
            w2 == IF ~el.paused
                  THEN [w1 EXCEPT !.audios = Play(w1.audios, replacementAudio)]
                  ELSE w1
        IN  handleCrossfade(w2, audio, replacementAudio)

\* the callback of the interval that does not pause at the deadline
timerTick_noPause(w) ==
  IF w.timerEndTime = Null THEN stopTimer(w)
  ELSE
    LET remaining == w.timerEndTime - w.now IN
    IF remaining <= 0 THEN
      LET w1 == dispatch(w, [type |-> "UPDATE_TIMER", timeRemaining |-> 0])
          w3 == dispatch(w1, [type |-> "CANCEL_TIMER"])
      IN  stopTimer(w3)
    ELSE dispatch(w, [type |-> "UPDATE_TIMER", timeRemaining |-> remaining])

\* the callback of the interval that pauses before it reports the zero
timerTick_pauseFirst(w) ==
  IF w.timerEndTime = Null THEN stopTimer(w)
  ELSE
    LET remaining == w.timerEndTime - w.now IN
    IF remaining <= 0 THEN
      LET w1 == dispatch(w, [type |-> "PAUSE_ALL_SOUNDS"])
          w2 == dispatch(w1, [type |-> "UPDATE_TIMER", timeRemaining |-> 0])
          w3 == dispatch(w2, [type |-> "CANCEL_TIMER"])
      IN  stopTimer(w3)
    ELSE dispatch(w, [type |-> "UPDATE_TIMER", timeRemaining |-> remaining])

\* the callback of the interval of startTimer
timerTick(w) ==
  IF w.timerEndTime = Null THEN stopTimer(w)
  ELSE
    LET remaining == w.timerEndTime - w.now IN
    IF remaining <= 0 THEN
      LET w1 == dispatch(w, [type |-> "UPDATE_TIMER", timeRemaining |-> 0])
          w2 == dispatch(w1, [type |-> "PAUSE_ALL_SOUNDS"])
          w3 == dispatch(w2, [type |-> "CANCEL_TIMER"])
      IN  stopTimer(w3)
    ELSE dispatch(w, [type |-> "UPDATE_TIMER", timeRemaining |-> remaining])

\* the entries of the parsed object, folded left to right
\* loadSavedState re-activating every catalog entry, whatever its volume
RECURSIVE RestoreTracks_anyVolume(_, _)
RestoreTracks_anyVolume(w, entries) ==
  IF entries = <<>> THEN w
  ELSE LET e == Head(entries)
           w1 == IF e.id \in SoundIds THEN toggleSound(w, e.id) ELSE w
       IN  RestoreTracks_anyVolume(w1, Tail(entries))

RECURSIVE RestoreTracks(_, _)
RestoreTracks(w, entries) ==
  IF entries = <<>> THEN w
  ELSE LET e == Head(entries)
           w1 == IF e.id \in SoundIds /\ e.st.volume > 0
                 THEN toggleSound(w, e.id) ELSE w
       IN  RestoreTracks(w1, Tail(entries))

loadSavedState(w) ==
  IF w.storage.kind # "json" THEN w
  ELSE
    LET parsed == w.storage.entries
        restoredState == [id \in {parsed[i].id : i \in 1..Len(parsed)} |->
                            [volume |-> (CHOOSE e \in {parsed[i] : i \in 1..Len(parsed)} :
                                           e.id = id).st.volume,
                             isPlaying |-> FALSE]]
        w1 == dispatch(w, [type |-> "INITIALIZE_STATE", savedState |-> restoredState])
        w2 == [w1 EXCEPT !.isPlaying = FALSE]
        w3 == RestoreTracks(w2, parsed)
    IN  notify([w3 EXCEPT !.isPlaying = FALSE])

(***************************************************************************)
(* Garbage: an element no track and no fade refers to, and that does not   *)
(* play, is gone.                                                          *)
(***************************************************************************)
Referenced(w) ==
  {w.activeSounds[i].audio : i \in 1..Len(w.activeSounds)}
    \cup {f.old : f \in w.fades} \cup {f.new : f \in w.fades}

Collect(w0) ==
  Only({ [w EXCEPT !.audios =
            [h \in {k \in DOMAIN w.audios :
                      \/ k \in Referenced(w)
                      \/ (~w.audios[k].paused /\ ~w.audios[k].error)
                      \/ (w.audios[k].canplaythrough /\ w.audios[k].src
                            /\ ~w.audios[k].error)}
               |-> w.audios[h]]]
         : w \in {w0} })

(***************************************************************************)
(* Handles carry no meaning but identity: the elements are renumbered in   *)
(* the order of the tracks that hold them, the others after them in their  *)
(* old order, so that two states that differ only in the numbering are one *)
(* state.                                                                  *)
(***************************************************************************)
RECURSIVE Distinct(_)
Distinct(s) ==
  IF s = <<>> THEN <<>>
  ELSE Only({ IF \E i \in 1..Len(r) : r[i] = s[Len(s)] THEN r ELSE Append(r, s[Len(s)])
              : r \in {Distinct(SubSeq(s, 1, Len(s) - 1))} })

RECURSIVE Ascending(_)
Ascending(S) ==
  IF S = {} THEN <<>>
  ELSE LET m == CHOOSE x \in S : \A y \in S : x <= y
       IN  <<m>> \o Ascending(S \ {m})

\* the elements of w in the order order, to[h] being the new handle of h
Relabel(w, order, to) ==
  [w EXCEPT
    !.audios = [i \in 1..Len(order) |-> w.audios[order[i]]],
    !.activeSounds = [i \in 1..Len(w.activeSounds) |->
                        [w.activeSounds[i] EXCEPT !.audio = to[@]]],
    !.fades = {[f EXCEPT !.old = to[@], !.new = to[@]] : f \in w.fades}]

Renumber(w0) ==
  Only({ Only({ Only({ Only({ Relabel(w, order, to)
    : to \in {[h \in DOMAIN w.audios |-> CHOOSE i \in 1..Len(order) : order[i] = h]} })
    : order \in {held \o Ascending(DOMAIN w.audios \ {held[i] : i \in 1..Len(held)})} })
    : held \in {Distinct([i \in 1..Len(w.activeSounds) |-> w.activeSounds[i].audio])} })
    : w \in {w0} })

(***************************************************************************)
(* Actions.                                                                *)
(***************************************************************************)
Commit(w0, op) ==
  /\ last' = op
  /\ \E w \in {Renumber(Collect(w0))} :
     /\ activeSounds' = w.activeSounds
     /\ masterVolume' = w.masterVolume
     /\ isPlaying' = w.isPlaying
     /\ timer' = w.timer
     /\ timeRemaining' = w.timeRemaining
     /\ timerEndTime' = w.timerEndTime
     /\ soundStates' = w.soundStates
     /\ storage' = w.storage
     /\ audios' = w.audios
     /\ fades' = w.fades
     /\ timerInterval' = w.timerInterval
     /\ intervals' = w.intervals
     /\ listeners' = w.listeners
     /\ customMixes' = w.customMixes
     /\ mixStorage' = w.mixStorage
     /\ log' = w.log

Free(w) == MaxAudios - Cardinality(DOMAIN w.audios)

\* the page is alive: the constructor has run; after cleanup() ("closed") the
\* events of the elements and of the intervals still arrive, and no caller
\* calls a public method
Running == phase \in {"ready", "closed"}

\* the state before the constructor runs, for the persisted contents in P
\* before the constructor: P the playback settings item, Q the custom mixes
\* item the program may find
BootWith(P, Q) ==
  /\ activeSounds = <<>>
  /\ masterVolume = InitialMasterVolume
  /\ isPlaying = FALSE
  /\ timer = "endless"
  /\ timeRemaining = Null
  /\ timerEndTime = Null
  /\ soundStates = Empty
  /\ storage \in P
  /\ audios = Empty
  /\ fades = {}
  /\ timerInterval = FALSE
  /\ intervals = 0
  /\ listeners = <<>>
  /\ customMixes = <<>>
  /\ mixStorage \in Q
  /\ log = <<>>
  /\ now = 0
  /\ phase = "boot"
  /\ last = [op |-> "none", branch |-> "none"]

Boot(P) == BootWith(P, {NoItem})

Init == Boot(PersistedChoices)

\* new AudioStateManager()
Construct ==
  \E w \in {Called} :
  /\ phase = "boot"
  /\ phase' = "ready"
  /\ now' = now
  /\ Commit(loadCustomMixes(loadSavedState(w)),
            [op |-> "constructor", branch |-> storage.kind])

ToggleBranch(w, s) ==
  IF FindIndex(w.activeSounds, s) # 0 THEN "remove"
  ELSE IF Len(w.activeSounds) >= MAX_CONCURRENT_SOUNDS THEN "full" ELSE "add"

ToggleSoundAct(s) ==
  \E w \in {Called} :
  /\ phase = "ready"
  /\ ToggleBranch(w, s) = "add" => Free(w) >= 1
  /\ UNCHANGED <<phase, now>>
  /\ Commit(toggleSound(w, s), [op |-> "toggleSound", branch |-> ToggleBranch(w, s)])

SetVolumeAct(s, v) ==
  \E w \in {Called} :
  /\ phase = "ready"
  /\ UNCHANGED <<phase, now>>
  /\ Commit(setVolumeForSound(w, s, v), [op |-> "setVolumeForSound", branch |-> s])

SetMasterVolumeAct(v) ==
  \E w \in {Called} :
  /\ phase = "ready"
  /\ UNCHANGED <<phase, now>>
  /\ Commit(setMasterVolume(w, v), [op |-> "setMasterVolume", branch |-> "-"])

TogglePlayPauseAct ==
  \E w \in {Called} :
  /\ phase = "ready"
  /\ UNCHANGED <<phase, now>>
  /\ Commit(togglePlayPause(w), [op |-> "togglePlayPause", branch |-> "-"])

PauseAllAct ==
  \E w \in {Called} :
  /\ phase = "ready"
  /\ UNCHANGED <<phase, now>>
  /\ Commit(pauseAllSounds(w), [op |-> "pauseAllSounds", branch |-> "-"])

PlayAllAct ==
  \E w \in {Called} :
  /\ phase = "ready"
  /\ UNCHANGED <<phase, now>>
  /\ Commit(playAllSounds(w), [op |-> "playAllSounds", branch |-> "-"])

ApplyMixAct(m) ==
  \E w \in {Called} :
  /\ phase = "ready"
  /\ Free(w) >= Len(m)
  /\ UNCHANGED <<phase, now>>
  /\ Commit(applyMix(w, m), [op |-> "applyMix", branch |-> "-"])

SubscribeAct(l) ==
  \E w \in {Called} :
  /\ phase = "ready"
  /\ UNCHANGED <<phase, now>>
  /\ Commit(subscribe(w, l), [op |-> "subscribe", branch |-> l])

UnsubscribeAct(l) ==
  \E w \in {Called} :
  /\ phase = "ready"
  /\ UNCHANGED <<phase, now>>
  /\ Commit(unsubscribe(w, l), [op |-> "unsubscribe", branch |-> l])

\* cleanup(), the teardown of the provider
CleanupAct ==
  \E w \in {Called} :
  /\ phase = "ready"
  /\ phase' = "closed"
  /\ now' = now
  /\ Commit(cleanup(w), [op |-> "cleanup", branch |-> "-"])

\* a timeupdate event of an element that is within 3 s of its end: the element
\* has played, and plays or has been paused there
TimeUpdateAct(h) ==
  \E w \in {Called} :
  /\ Running
  /\ audios[h].listener /\ ~audios[h]._crossfadeTriggered
  /\ audios[h].src /\ ~audios[h].error /\ audios[h].played
  /\ audios[h].generation < MaxGeneration
  /\ Cardinality(fades) < MaxFades
  /\ Cardinality(DOMAIN audios) < MaxLooping
  /\ UNCHANGED <<phase, now>>
  /\ Commit(handleTimeUpdate(w, h), [op |-> "timeupdate", branch |-> "-"])

FadeBranch(w, f) ==
  IF ~f.isCurrentlyPlaying \/ w.audios[f.old].paused THEN "abort"
  ELSE IF f.currentStep + 1 >= fadeSteps THEN "complete" ELSE "step"

\* the interval of a crossfade fires
FadeIntervalAct(f) ==
  \E w \in {Called} :
  /\ Running
  /\ UNCHANGED <<phase, now>>
  /\ Commit(fadeInterval(w, f), [op |-> "fadeInterval", branch |-> FadeBranch(w, f)])

\* the incoming element of a crossfade has loaded enough data
CanPlayThroughAct(h) ==
  \E w \in {Called} :
  /\ Running
  /\ audios[h].canplaythrough /\ audios[h].src /\ ~audios[h].error
  /\ UNCHANGED <<phase, now>>
  /\ Commit(onCanPlayThrough(w, h), [op |-> "canplaythrough", branch |-> "-"])

SaveCustomMixAct(m) ==
  \E w \in {Called} :
  /\ phase = "ready"
  /\ UNCHANGED <<phase, now>>
  /\ Commit(saveCustomMix(w, m), [op |-> "saveCustomMix", branch |-> m.name])

DeleteCustomMixAct(n) ==
  \E w \in {Called} :
  /\ phase = "ready"
  /\ UNCHANGED <<phase, now>>
  /\ Commit(deleteCustomMix(w, n), [op |-> "deleteCustomMix", branch |-> n])

\* an error event of an element
AudioErrorAct(h) ==
  \E w \in {Called} :
  /\ Running
  /\ audios[h].listener /\ audios[h].src
  /\ audios[h].generation < MaxGeneration
  /\ Cardinality(DOMAIN audios) < MaxLooping
  /\ UNCHANGED <<phase, now>>
  /\ Commit(handleAudioError(w, h), [op |-> "error", branch |-> "-"])

\* two error events of one element, one after the other: its listener is
\* still registered when the second one arrives
AudioErrorTwiceAct(h) ==
  \E w \in {Called} :
  /\ Running
  /\ audios[h].listener /\ audios[h].src
  /\ audios[h].generation < MaxGeneration
  /\ Cardinality(DOMAIN audios) < MaxLooping
  /\ UNCHANGED <<phase, now>>
  /\ Commit(handleAudioError(handleAudioError(w, h), h),
            [op |-> "error", branch |-> "twice"])

SetTimerAct(t) ==
  \E w \in {Called} :
  /\ phase = "ready"
  /\ UNCHANGED <<phase, now>>
  /\ Commit(setTimer(w, t), [op |-> "setTimer", branch |-> t])

CancelTimerAct ==
  \E w \in {Called} :
  /\ phase = "ready"
  /\ UNCHANGED <<phase, now>>
  /\ Commit(cancelTimer(w), [op |-> "cancelTimer", branch |-> "-"])

TickBranch(w) ==
  IF w.timerEndTime = Null THEN "stop"
  ELSE IF w.timerEndTime - w.now <= 0 THEN "expired" ELSE "update"

\* the interval of startTimer fires
TimerTickAct ==
  \E w \in {Called} :
  /\ Running
  /\ intervals > 0
  /\ UNCHANGED <<phase, now>>
  /\ Commit(timerTick(w), [op |-> "timerTick", branch |-> TickBranch(w)])

\* time passes
AdvanceTimeAct ==
  /\ Running
  /\ now < MaxClockSteps * ClockStep
  /\ now' = now + ClockStep
  /\ last' = [op |-> "advanceTime", branch |-> "-"]
  /\ log' = <<>>
  /\ UNCHANGED <<activeSounds, masterVolume, isPlaying, timer, timeRemaining,
                 timerEndTime, soundStates, storage, audios, fades, timerInterval,
                 intervals, listeners, customMixes, mixStorage, phase>>

(***************************************************************************)
(* Specifications.  Each one lets the environment call a part of the       *)
(* operations, with inputs from small sets.                                *)
(***************************************************************************)
\* toggleSound alone, over the whole catalog
NextToggle ==
  \/ Construct
  \/ \E s \in SoundIds : ToggleSoundAct(s)

SpecToggle == Init /\ [][NextToggle]_vars

\* the session without mixes and crossfades
Next ==
  \/ Construct
  \/ \E s \in SoundIds : ToggleSoundAct(s)
  \/ \E s \in {"rain"}, v \in {50} : SetVolumeAct(s, v)
  \/ \E v \in {50} : SetMasterVolumeAct(v)
  \/ TogglePlayPauseAct
  \/ \E t \in {"5min", "endless"} : SetTimerAct(t)
  \/ CancelTimerAct
  \/ TimerTickAct
  \/ AdvanceTimeAct

Spec == Init /\ [][Next]_vars

\* mixes
NextMix ==
  \/ Construct
  \/ \E s \in {"rain", "fire"} : ToggleSoundAct(s)
  \/ TogglePlayPauseAct
  \/ PauseAllAct
  \/ PlayAllAct
  \/ \E v \in {50} : SetMasterVolumeAct(v)
  \/ \E m \in Mixes : ApplyMixAct(m)

SpecMix == Init /\ [][NextMix]_vars

\* crossfades and error recovery of the tracks of one sound
NextFade ==
  \/ Construct
  \/ \E s \in {"rain"} : ToggleSoundAct(s)
  \/ \E s \in {"rain"}, v \in {50} : SetVolumeAct(s, v)
  \/ \E v \in {50} : SetMasterVolumeAct(v)
  \/ TogglePlayPauseAct
  \/ PauseAllAct
  \/ \E h \in DOMAIN audios : TimeUpdateAct(h)
  \/ \E f \in fades : FadeIntervalAct(f)
  \/ \E h \in DOMAIN audios : AudioErrorAct(h)

\* listeners, the countdown and the teardown
NextNotify ==
  \/ Construct
  \/ \E l \in ListenerIds : SubscribeAct(l)
  \/ \E l \in ListenerIds : UnsubscribeAct(l)
  \/ \E s \in {"rain"} : ToggleSoundAct(s)
  \/ TogglePlayPauseAct
  \/ \E t \in {"5min"} : SetTimerAct(t)
  \/ TimerTickAct
  \/ AdvanceTimeAct
  \/ CleanupAct

InitNotify ==
  Boot({NoItem,
        Json(<<Saved("waves", 5000, TRUE), Saved("wind", 5000, TRUE),
               Saved("fire", 10000, TRUE), Saved("rain", 5000, FALSE)>>)})

SpecNotify == InitNotify /\ [][NextNotify]_vars

\* one countdown, armed once at time 0 and left alone, among toggles, play and
\* pause, a mix and the crossfades of the looping sound, one at a time (a fade
\* lasts 3 s at the end of a track); the interval keeps firing and time advances
ArmAct ==
  /\ timer = "endless"
  /\ now = 0
  /\ SetTimerAct("5min")

NextCountdown ==
  \/ Construct
  \/ \E s \in {"rain"} : ToggleSoundAct(s)
  \/ TogglePlayPauseAct
  \/ \E m \in {<<Entry("fire", 100)>>} : ApplyMixAct(m)
  \/ ArmAct
  \/ TimerTickAct
  \/ AdvanceTimeAct
  \/ \E h \in DOMAIN audios : fades = {} /\ TimeUpdateAct(h)
  \/ \E f \in fades : FadeIntervalAct(f)
  \/ \E h \in DOMAIN audios : CanPlayThroughAct(h)

InitCountdown == Boot({NoItem})

SpecCountdown ==
  InitCountdown /\ [][NextCountdown]_vars
    /\ WF_vars(TimerTickAct) /\ WF_vars(AdvanceTimeAct)

InitFade == Boot({NoItem, Json(<<Saved("rain", 5000, TRUE)>>)})

SpecFade == InitFade /\ [][NextFade]_vars

\* startup on every persisted content, then the play button
NextStartup ==
  \/ Construct
  \/ TogglePlayPauseAct

InitStartup == Boot(StartupChoices)

SpecStartup == InitStartup /\ [][NextStartup]_vars

\* the volume sliders of two catalog sounds and of an id without a track
NextVolume ==
  \/ Construct
  \/ \E s \in {"rain", "fire"} : ToggleSoundAct(s)
  \/ \E s \in {"rain", "fire"}, v \in {0, 50} : SetVolumeAct(s, v)
  \/ \E s \in {UnknownId}, v \in {50} : SetVolumeAct(s, v)
  \/ TogglePlayPauseAct
  \/ \E m \in {<<Entry("rain", 50), Entry("rain", 100)>>} : ApplyMixAct(m)

InitVolume == Boot({NoItem, Json(<<Saved("rain", 5000, TRUE)>>)})

SpecVolume == InitVolume /\ [][NextVolume]_vars

\* one looping sound, play and pause, and the readiness event of the incoming
\* element of its crossfade
NextReady ==
  \/ Construct
  \/ \E s \in {"rain"} : ToggleSoundAct(s)
  \/ TogglePlayPauseAct
  \/ PauseAllAct
  \/ \E h \in DOMAIN audios : TimeUpdateAct(h)
  \/ \E f \in fades : FadeIntervalAct(f)
  \/ \E h \in DOMAIN audios : CanPlayThroughAct(h)

InitReady == Boot({NoItem})

SpecReady == InitReady /\ [][NextReady]_vars

\* the provider unmounts while a sound loops: cleanup among the crossfade
\* handlers and the countdown
NextTeardown ==
  \/ Construct
  \/ \E l \in {"provider"} : SubscribeAct(l)
  \/ \E s \in {"rain"} : ToggleSoundAct(s)
  \/ TogglePlayPauseAct
  \/ \E t \in {"5min"} : SetTimerAct(t)
  \/ TimerTickAct
  \/ \E h \in DOMAIN audios : TimeUpdateAct(h)
  \/ \E f \in fades : FadeIntervalAct(f)
  \/ \E h \in DOMAIN audios : CanPlayThroughAct(h)
  \/ CleanupAct

InitTeardown == Boot({NoItem})

SpecTeardown == InitTeardown /\ [][NextTeardown]_vars

\* a looping sound whose elements report errors, with a listener
NextRecover ==
  \/ Construct
  \/ \E l \in {"provider"} : SubscribeAct(l)
  \/ \E s \in {"rain"} : ToggleSoundAct(s)
  \/ TogglePlayPauseAct
  \/ \E h \in DOMAIN audios : TimeUpdateAct(h)
  \/ \E f \in fades : FadeIntervalAct(f)
  \/ \E h \in DOMAIN audios : AudioErrorAct(h)
  \/ \E h \in DOMAIN audios : AudioErrorTwiceAct(h)

SpecRecover == InitTeardown /\ [][NextRecover]_vars

\* the countdown alone: two bounded options and the endless one, with a
\* listener
NextTimer ==
  \/ Construct
  \/ \E l \in {"provider"} : SubscribeAct(l)
  \/ \E s \in {"rain"} : ToggleSoundAct(s)
  \/ TogglePlayPauseAct
  \/ \E t \in {"5min", "15min", "endless"} : SetTimerAct(t)
  \/ CancelTimerAct
  \/ TimerTickAct
  \/ AdvanceTimeAct

SpecTimer == InitTeardown /\ [][NextTimer]_vars

\* the same with the interval of a crossfade firing as long as it is set
\* (setInterval, 196 and 231)
SpecTeardownFair ==
  SpecTeardown /\ WF_vars(\E f \in fades : FadeIntervalAct(f))

\* the custom mixes: saving and deleting, with a listener and the play button
NextPresets ==
  \/ Construct
  \/ \E l \in {"provider"} : SubscribeAct(l)
  \/ \E m \in PresetChoices : SaveCustomMixAct(m)
  \/ \E n \in PresetNames : DeleteCustomMixAct(n)
  \/ TogglePlayPauseAct

InitPresets == BootWith({NoItem}, PresetItems)

SpecPresets == InitPresets /\ [][NextPresets]_vars

(***************************************************************************)
(* Properties.                                                             *)
(***************************************************************************)
\* the tracks as the claims speak of them: sound id and volume, in order
Tracks(w) ==
  [i \in 1..Len(w.activeSounds) |->
     [sound |-> w.activeSounds[i].sound, volume |-> w.activeSounds[i].volume]]

Inactive(s) == s \notin ActiveIds(activeSounds)

\* C1: whatever sequence of toggleSound calls follows the construction, over
\* any sounds of the catalog, there are never more than 3 active tracks.
C1_TogglesKeepAtMostThree == Len(activeSounds) <= MAX_CONCURRENT_SOUNDS

\* three tracks are active and one more toggle-on has just been turned down
C1_Witness ==
  /\ Len(activeSounds) = MAX_CONCURRENT_SOUNDS
  /\ last = [op |-> "toggleSound", branch |-> "full"]

\* C2: a toggleSound of a sound that is not active, issued while 3 tracks are
\* active, changes nothing: the tracks, soundStates, masterVolume, isPlaying,
\* the timer fields, the timer interval and the persisted item stay as they
\* are, and no audio element is created, started, paused or released.
C2_ToggleAtCapacityIsNoOp ==
  [][ (last'.op = "toggleSound" /\ last'.branch = "full")
        => /\ Len(activeSounds) = MAX_CONCURRENT_SOUNDS
           /\ activeSounds' = activeSounds
           /\ soundStates' = soundStates
           /\ masterVolume' = masterVolume
           /\ isPlaying' = isPlaying
           /\ timer' = timer
           /\ timeRemaining' = timeRemaining
           /\ timerEndTime' = timerEndTime
           /\ timerInterval' = timerInterval
           /\ storage' = storage
           /\ audios' = audios
           /\ fades' = fades ]_vars

\* a toggle-on was turned down while the session plays under an armed timer
C2_Witness ==
  /\ last = [op |-> "toggleSound", branch |-> "full"]
  /\ isPlaying
  /\ timer # "endless"
  /\ timerInterval
  /\ \E h \in DOMAIN audios : ~audios[h].paused

\* C3: the caller of toggleSound can tell a toggle that was turned down at
\* 3 active tracks from a toggle that was accepted by what the call gives
\* back, without looking at the state.
C3_RejectionIsDistinguishable ==
  \A s, t \in SoundIds :
    ( /\ phase = "ready"
      /\ ToggleBranch(World, s) = "full"
      /\ ToggleBranch(World, t) # "full" )
    => toggleSoundReturn(World, s) # toggleSoundReturn(World, t)

\* C4: under toggleSound, togglePlayPause, pauseAllSounds, playAllSounds,
\* setMasterVolume, applyMix of any mix and the restore of any persisted item,
\* there are never more than 3 active tracks.
C4_AtMostThreeTracks == ~(Len(activeSounds) > MAX_CONCURRENT_SOUNDS)

\* C5: no two active tracks are tracks of the same sound.
C5_OneTrackPerSound ==
  \A i, j \in 1..Len(activeSounds) :
    i # j => activeSounds[i].sound # activeSounds[j].sound

\* C6: every sound that has an active track has a key in soundStates.
C6_ActiveSoundsHaveSettings == ActiveIds(activeSounds) \subseteq DOMAIN soundStates

\* C7 as stated: with fewer than 3 tracks and s not active, toggleSound(s)
\* twice leaves the tracks (ids, order, volumes) and soundStates (keys and
\* entries) as they were, also when soundStates held an entry for s.
C7_PairRestoresEverything ==
  \A s \in SoundIds :
    (phase = "ready" /\ Len(activeSounds) < MAX_CONCURRENT_SOUNDS /\ Inactive(s))
    => LET after == toggleSound(toggleSound(World, s), s)
       IN  /\ Tracks(after) = Tracks(World)
           /\ after.soundStates = soundStates

\* C7 amended: with fewer than 3 tracks and s not active, toggleSound(s)
\* twice leaves the tracks (ids, order, volumes) as they were, and soundStates
\* as it was but without the key s; soundStates is as it was exactly when it
\* held no entry for s.
C7_PairRestoresTracksAndDropsEntry ==
  \A s \in SoundIds :
    (phase = "ready" /\ Len(activeSounds) < MAX_CONCURRENT_SOUNDS /\ Inactive(s))
    => LET after == toggleSound(toggleSound(World, s), s)
       IN  /\ Tracks(after) = Tracks(World)
           /\ after.soundStates = Delete(soundStates, s)
           /\ (after.soundStates = soundStates) <=> (s \notin DOMAIN soundStates)

\* a sound that is not active has an entry in soundStates, beside a track of
\* another sound, and the two toggles are an add and a remove
C7_Witness ==
  /\ phase = "ready"
  /\ Len(activeSounds) \in 1..(MAX_CONCURRENT_SOUNDS - 1)
  /\ \E s \in SoundIds :
       /\ Inactive(s)
       /\ s \in DOMAIN soundStates
       /\ ToggleBranch(World, s) = "add"
       /\ ToggleBranch(toggleSound(World, s), s) = "remove"

\* C8: an operation that takes the tracks from some to none leaves
\* isPlaying = false.
C8_EmptyingStopsPlayback ==
  [][ (Len(activeSounds) > 0 /\ Len(activeSounds') = 0) => ~isPlaying' ]_vars

Settled(i) ==
  \A f \in fades : activeSounds[i].audio # f.old /\ activeSounds[i].audio # f.new

\* C10: the gain of the element of every active track without a crossfade in
\* flight is track.volume * masterVolume.
C10_GainIsVolumeTimesMaster ==
  \A i \in 1..Len(activeSounds) :
    Settled(i) =>
      audios[activeSounds[i].audio].volume = activeSounds[i].volume * masterVolume

\* the mixes of at most 3 entries, each of another sound of the catalog
GoodMixes ==
  {m \in Mixes :
     /\ Len(m) <= MAX_CONCURRENT_SOUNDS
     /\ MixIds(m) \subseteq SoundIds
     /\ \A i, j \in 1..Len(m) : i # j => m[i].id # m[j].id}

\* the volume the mix m gives for the sound id
MixVolume(m, id) == (CHOOSE e \in {m[i] : i \in 1..Len(m)} : e.id = id).volume

\* C11: applyMix of a mix of at most 3 distinct catalog sounds leaves tracks
\* of exactly the sounds of the mix, each at the volume of the mix and with
\* soundStates[id].volume = volume * 100; the element of every track of a
\* sound that is not in the mix is paused and released, and the sound has no
\* key in soundStates; a track that was active keeps its element; every
\* element created is started iff isPlaying was true; isPlaying and
\* masterVolume are unchanged.
C11_ApplyMixInstallsTheMix ==
  \A m \in GoodMixes :
    phase = "ready" =>
      LET after == applyMix(World, m)
          created == DOMAIN after.audios \ DOMAIN audios
      IN  /\ ActiveIds(after.activeSounds) = MixIds(m)
          /\ \A i \in 1..Len(after.activeSounds) :
               LET t == after.activeSounds[i]
               IN  /\ t.volume = MixVolume(m, t.sound)
                   /\ t.sound \in DOMAIN after.soundStates
                   /\ after.soundStates[t.sound].volume = t.volume * Hundred
          /\ \A i \in 1..Len(activeSounds) :
               LET t == activeSounds[i]
               IN  IF t.sound \in MixIds(m)
                   THEN \E j \in 1..Len(after.activeSounds) :
                          /\ after.activeSounds[j].sound = t.sound
                          /\ after.activeSounds[j].audio = t.audio
                   ELSE /\ after.audios[t.audio].paused
                        /\ ~after.audios[t.audio].src
                        /\ t.sound \notin DOMAIN after.soundStates
          /\ \A h \in created : ~after.audios[h].paused <=> isPlaying
          /\ after.isPlaying = isPlaying
          /\ after.masterVolume = masterVolume

\* C11 in the states with one track per sound: what is left of the claim
\* when the duplicate tracks of C5 are set aside.
C11_OnOneTrackPerSound == C5_OneTrackPerSound => C11_ApplyMixInstallsTheMix

\* the bounded options of TimerOption with their minutes
BoundedOptions ==
  { <<"5min", 5>>, <<"15min", 15>>, <<"30min", 30>>, <<"45min", 45>>,
    <<"60min", 60>>, <<"75min", 75>>, <<"90min", 90>> }

\* C12: setTimer of a bounded option of N minutes sets timer to the option,
\* timeRemaining to N * 60000 and timerEndTime to now + N * 60000, and the
\* tick interval runs afterwards; the tracks with their volumes and elements,
\* isPlaying, masterVolume, soundStates and the persisted item are unchanged.
C12_SetTimerArmsTheCountdown ==
  \A o \in BoundedOptions :
    phase = "ready" =>
      LET after == setTimer(World, o[1])
      IN  /\ after.timer = o[1]
          /\ after.timeRemaining = o[2] * 60000
          /\ after.timerEndTime = now + o[2] * 60000
          /\ after.timerInterval
          /\ after.activeSounds = activeSounds
          /\ after.audios = audios
          /\ after.isPlaying = isPlaying
          /\ after.masterVolume = masterVolume
          /\ after.soundStates = soundStates
          /\ after.storage = storage

\* setTimer("5min") has just armed the countdown of a session that plays, at
\* a time other than 0
C12_Witness ==
  /\ last = [op |-> "setTimer", branch |-> "5min"]
  /\ now > 0
  /\ timer = "5min"
  /\ timeRemaining = 300000
  /\ timerEndTime = now + 300000
  /\ timerInterval
  /\ isPlaying
  /\ Len(activeSounds) > 0

\* the states listener l was called with, in the order of the calls
CallsOf(calls, l) ==
  LET own == SelectSeq(calls, LAMBDA c : c.listener = l)
  IN  [i \in 1..Len(own) |-> own[i].state]

\* C13: a tick of the countdown at or after the deadline takes the state
\* through, and calls every listener with, first timeRemaining = 0 (playback
\* and timer as they were), then isPlaying = false with the element of every
\* track paused, then timer = "endless" with timeRemaining and timerEndTime
\* null, and the interval is stopped afterwards; a tick takes this course only
\* at or after the deadline, and a tick before the deadline changes neither
\* isPlaying nor any element nor the timer.
C13_ExpiryOrder ==
  [][ /\ (last'.op = "timerTick" /\ last'.branch = "expired")
           => /\ timerEndTime # Null /\ now >= timerEndTime
              /\ \A l \in {listeners[i] : i \in 1..Len(listeners)} :
                   LET seen == CallsOf(log', l)
                   IN  /\ Len(seen) = 3
                       /\ seen[1].timeRemaining = 0
                       /\ seen[1].isPlaying = isPlaying
                       /\ seen[1].timer = timer
                       /\ seen[1].timerEndTime = timerEndTime
                       /\ seen[2].timeRemaining = 0
                       /\ ~seen[2].isPlaying /\ seen[2].paused
                       /\ seen[2].timer = timer
                       /\ seen[2].timerEndTime = timerEndTime
                       /\ seen[3].timer = "endless"
                       /\ seen[3].timeRemaining = Null
                       /\ seen[3].timerEndTime = Null
                       /\ ~seen[3].isPlaying /\ seen[3].paused
              /\ timer' = "endless" /\ timeRemaining' = Null /\ timerEndTime' = Null
              /\ ~isPlaying'
              /\ \A i \in 1..Len(activeSounds') : audios'[activeSounds'[i].audio].paused
              /\ ~timerInterval'
      /\ (last'.op = "timerTick" /\ timerEndTime # Null /\ now < timerEndTime)
           => /\ isPlaying' = isPlaying
              /\ audios' = audios
              /\ timer' = timer
              /\ timerEndTime' = timerEndTime
              /\ timeRemaining' = timerEndTime - now ]_vars

\* the countdown of a session that played has just expired before two
\* listeners
C13_Witness ==
  /\ last = [op |-> "timerTick", branch |-> "expired"]
  /\ Len(listeners) = 2
  /\ Len(log) = 6
  /\ log[1].state.isPlaying
  /\ ~log[1].state.paused
  /\ ~isPlaying

\* the countdown has stopped the session
Stopped ==
  /\ ~isPlaying
  /\ \A i \in 1..Len(activeSounds) : audios[activeSounds[i].audio].paused
  /\ timer = "endless"
  /\ timerEndTime = Null

\* C14: once a bounded timer is armed and neither setTimer, cancelTimer nor
\* cleanup is called again, a state is reached in which isPlaying = false, the
\* element of every track is paused, timer = "endless" and timerEndTime is
\* null, provided time advances and the interval keeps firing, whatever
\* toggleSound, togglePlayPause, applyMix and crossfade steps come in between.
C14_ArmedTimerStopsPlayback == (timerEndTime # Null) ~> Stopped

\* the countdown has expired on a track that has played
C14_Witness ==
  /\ last = [op |-> "timerTick", branch |-> "expired"]
  /\ Stopped
  /\ \E i \in 1..Len(activeSounds) : audios[activeSounds[i].audio].played

\* the catalog entries of the persisted content with a positive volume
Positive(st) ==
  IF st.kind = "json"
  THEN SelectSeq(st.entries, LAMBDA e : e.id \in SoundIds /\ e.st.volume > 0)
  ELSE <<>>

FirstUpTo(s, n) == SubSeq(s, 1, IF Len(s) < n THEN Len(s) ELSE n)

\* C15: whatever the persisted content, after the constructor isPlaying is
\* false, no element plays, every soundStates entry has isPlaying false, and
\* the tracks are the first up to three catalog sounds persisted with a
\* volume above 0, in the order of the persisted object, each at the
\* persisted volume / 100.
C15_StartupRestoresPaused ==
  [][phase = "boot" /\ phase' = "ready" =>
       LET expected == FirstUpTo(Positive(storage), MAX_CONCURRENT_SOUNDS) IN
       /\ ~isPlaying'
       /\ \A h \in DOMAIN audios' : audios'[h].paused
       /\ \A k \in DOMAIN soundStates' : ~soundStates'[k].isPlaying
       /\ Len(activeSounds') = Len(expected)
       /\ \A i \in 1..Len(expected) :
            /\ activeSounds'[i].sound = expected[i].id
            /\ activeSounds'[i].volume * Hundred = expected[i].st.volume]_vars

\* started on four positive catalog entries and an unknown one: three tracks,
\* the fourth catalog sound and the unknown id only in soundStates
C15_Witness ==
  /\ last = [op |-> "constructor", branch |-> "json"]
  /\ Len(activeSounds) = MAX_CONCURRENT_SOUNDS
  /\ UnknownId \in DOMAIN soundStates
  /\ \E s \in SoundIds : s \in DOMAIN soundStates /\ Inactive(s)
  /\ \E i \in 1..Len(activeSounds) : activeSounds[i].volume = 50

\* C16: a setVolumeForSound(a, x) step leaves every track of another sound
\* (its volume, its element and the element's gain) and every soundStates
\* entry of another id as they were; and from the state it starts in,
\* setVolumeForSound(a, x) and setVolumeForSound(b, y) for b # a give the same
\* tracks, elements and soundStates in either order, soundStates[a].volume
\* being x * 100 and soundStates[b].volume y * 100.
C16_SetVolumeTouchesOneSound ==
  /\ [][last'.op = "setVolumeForSound" =>
          LET a == last'.branch IN
          /\ Len(activeSounds') = Len(activeSounds)
          /\ \A i \in 1..Len(activeSounds) :
               activeSounds[i].sound # a =>
                 /\ activeSounds'[i] = activeSounds[i]
                 /\ audios'[activeSounds[i].audio] = audios[activeSounds[i].audio]
          /\ DOMAIN soundStates' = DOMAIN soundStates \cup {a}
          /\ \A b \in DOMAIN soundStates \ {a} : soundStates'[b] = soundStates[b]]_vars
  /\ [](\A i \in 1..Len(AllIds), j \in 1..Len(AllIds), x \in Volumes, y \in Volumes :
          i < j =>
            \E a \in {AllIds[i]}, b \in {AllIds[j]} :
            \E ab \in {setVolumeForSound(setVolumeForSound(Called, a, x), b, y)},
               ba \in {setVolumeForSound(setVolumeForSound(Called, b, y), a, x)} :
              /\ ab.activeSounds = ba.activeSounds
              /\ ab.audios = ba.audios
              /\ ab.soundStates = ba.soundStates
              /\ ab.soundStates[a].volume = x * Hundred
              /\ ab.soundStates[b].volume = y * Hundred)

\* the volume of rain was just set to 0.5 while fire, set to 0 before, plays
\* on at gain 0
C16_Witness ==
  /\ last = [op |-> "setVolumeForSound", branch |-> "rain"]
  /\ isPlaying
  /\ \E i, j \in 1..Len(activeSounds) :
       /\ activeSounds[i].sound = "rain" /\ activeSounds[i].volume = 50
       /\ activeSounds[j].sound = "fire" /\ activeSounds[j].volume = 0
       /\ audios[activeSounds[j].audio].volume = 0
       /\ audios[activeSounds[i].audio].volume = 50 * masterVolume
  /\ soundStates["rain"].volume = 5000
  /\ soundStates["fire"].volume = 0

\* the tracks whose element came in through handleCrossfade
Swapped == {i \in 1..Len(activeSounds) : audios[activeSounds[i].audio].generation > 0}

\* C17: once handleCrossfade has made the incoming element the element of a
\* track, that element plays exactly when isPlaying holds, in every later
\* state: after a pause during the fade and after the canplaythrough listener
\* of the incoming element has run.
C17_SwappedElementFollowsIsPlaying ==
  \A i \in Swapped : ~audios[activeSounds[i].audio].paused <=> isPlaying

\* the swap itself: a fadeInterval step that ends a crossfade of a track's
\* element puts the incoming element in its place, playing iff isPlaying
C17_SwapStep ==
  [][last'.op = "fadeInterval" /\ last'.branch \in {"abort", "complete"}
       /\ Len(activeSounds) = 1 /\ fades # {}
       /\ (\E f \in fades : f.old = activeSounds[1].audio) =>
       /\ Len(activeSounds') = 1
       /\ activeSounds'[1].sound = activeSounds[1].sound
       /\ activeSounds'[1].volume = activeSounds[1].volume
       /\ audios'[activeSounds'[1].audio].generation > 0
       /\ ~audios'[activeSounds'[1].audio].paused <=> isPlaying'
       /\ UNCHANGED <<masterVolume, isPlaying, timer, timeRemaining, timerEndTime,
                      soundStates, storage>>]_vars

\* a crossfade aborted by a pause has swapped the incoming element in, paused,
\* with its canplaythrough listener still waiting
C17_Witness ==
  /\ last = [op |-> "fadeInterval", branch |-> "abort"]
  /\ ~isPlaying
  /\ Swapped # {}
  /\ \A i \in Swapped : /\ audios[activeSounds[i].audio].paused
                        /\ audios[activeSounds[i].audio].canplaythrough

\* JSON.parse of the persisted item: the mapping from sound id to settings
Parsed(st) ==
  [id \in {st.entries[i].id : i \in 1..Len(st.entries)} |->
     (CHOOSE e \in {st.entries[i] : i \in 1..Len(st.entries)} : e.id = id).st]

PublicOps ==
  {"constructor", "toggleSound", "setVolumeForSound", "setMasterVolume",
   "togglePlayPause", "pauseAllSounds", "playAllSounds", "applyMix", "setTimer",
   "cancelTimer"}

\* C18: after the constructor and after every public operation, the persisted
\* item, when there is a well-formed one, holds exactly the soundStates of the
\* state.
C18_StorageEqualsSoundStates ==
  last.op \in PublicOps /\ storage.kind = "json" => Parsed(storage) = soundStates

\* started on an item that holds only a sound at volume 0 with its flag set
C18_Witness ==
  /\ last = [op |-> "constructor", branch |-> "json"]
  /\ activeSounds = <<>>
  /\ \E k \in DOMAIN Parsed(storage) : Parsed(storage)[k].isPlaying

\* the public methods that are one dispatch
OneDispatch == PublicOps \ {"constructor"}

Subscribed == {listeners[i] : i \in 1..Len(listeners)}

\* C19: a public method that dispatches calls every subscribed listener exactly
\* once, with the state the method leaves, also when that state is the state it
\* found (a toggle at capacity), and calls no one else; a tick of the countdown
\* calls every subscribed listener once per dispatch it makes; and no step ever
\* calls a listener that is not subscribed when the step starts: none that
\* has unsubscribed, none at all after cleanup().
C19_EveryDispatchNotifiesOnce ==
  [][ /\ last'.op \in OneDispatch =>
           /\ \A l \in Subscribed : CallsOf(log', l) = <<Snapshot(Called)'>>
           /\ Len(log') = Len(listeners)
      /\ last'.op = "timerTick" =>
           \A l \in Subscribed :
             Len(CallsOf(log', l)) = CASE last'.branch = "expired" -> 3
                                       [] last'.branch = "update" -> 1
                                       [] OTHER -> 0
      /\ \A i \in 1..Len(log') : log'[i].listener \in Subscribed
      /\ last'.op = "unsubscribe" => last'.branch \notin Subscribed'
      /\ last'.op = "cleanup" => listeners' = <<>> ]_vars

\* a toggle at capacity, refused, has called each of the two listeners once
\* with the state it left unchanged
C19_Witness ==
  /\ last = [op |-> "toggleSound", branch |-> "full"]
  /\ Len(activeSounds) = MAX_CONCURRENT_SOUNDS
  /\ Len(listeners) = 2
  /\ Len(log) = 2
  /\ log[1].state = log[2].state
  /\ log[1].listener # log[2].listener

\* C20: in every state after cleanup() the element of every track is paused
\* and released, no countdown interval is set and no listener is subscribed:
\* nothing that runs after the teardown, the rest of a crossfade included,
\* starts an element again.
C20_TeardownSilencesTracks ==
  phase = "closed" =>
    /\ \A i \in 1..Len(activeSounds) :
         /\ audios[activeSounds[i].audio].paused
         /\ ~audios[activeSounds[i].audio].src
    /\ ~timerInterval
    /\ listeners = <<>>

\* cleanup() has just run on a playing session with a crossfade in flight and a
\* countdown armed
C20_Witness ==
  /\ last = [op |-> "cleanup", branch |-> "-"]
  /\ isPlaying
  /\ fades # {}
  /\ timerEndTime # Null
  /\ C20_TeardownSilencesTracks

\* the mixes of a collection other than the one named n, in their order
Others(mixes, n) == SelectSeq(mixes, LAMBDA m : m.name # n)

C22_CancelTimerIsSetTimerEndless ==
  phase = "ready" =>
    /\ cancelTimer(Called) = setTimer(Called, "endless")
    /\ ~setTimer(Called, "endless").timerInterval

\* setTimer("endless") has returned on an armed countdown: the state is that of
\* cancelTimer, the interval is still set
C22_Witness ==
  /\ last = [op |-> "setTimer", branch |-> "endless"]
  /\ timer = "endless" /\ timeRemaining = Null /\ timerEndTime = Null
  /\ timerInterval

\* C23: when the 60th step of a crossfade has run, the incoming element is the
\* element of the track, its gain is the track's volume * masterVolume of the
\* state at that time, whatever changed them since the outgoing element was
\* created; the outgoing element is paused and released; every listener is
\* called exactly once.
C23_CompletedFadeEndsAtStateGain ==
  [][last'.op = "fadeInterval" /\ last'.branch = "complete" =>
       \A f \in fades :
         (/\ FadeBranch(Called, f) = "complete"
          /\ \E i \in 1..Len(activeSounds) : activeSounds[i].audio = f.old) =>
           /\ fadeInterval(Called, f).audios[f.old].paused
           /\ ~fadeInterval(Called, f).audios[f.old].src
           /\ \A i \in 1..Len(activeSounds') :
                audios'[activeSounds'[i].audio].generation > 0 =>
                  audios'[activeSounds'[i].audio].volume
                    = activeSounds'[i].volume * masterVolume'
           /\ fades' = {}
           /\ \A l \in Subscribed : Len(CallsOf(log', l)) = 1
           /\ Len(log') = Len(listeners)]_vars

\* a crossfade has run to its end after the master volume was changed: the
\* swapped-in element plays at the gain of the old master volume
C23_Witness ==
  /\ last = [op |-> "fadeInterval", branch |-> "complete"]
  /\ isPlaying
  /\ masterVolume = 50
  /\ \E i \in Swapped :
       /\ ~audios[activeSounds[i].audio].paused
       /\ audios[activeSounds[i].audio].volume = activeSounds[i].volume * InitialMasterVolume

\* C24: when the element of a track was paused while its crossfade was in
\* flight, the next step of the fade ends it: the outgoing element is paused and
\* released, the incoming element is the paused element of the track, every
\* listener is called exactly once; and while isPlaying stays false no step other
\* than an explicit play starts the element of a track.
C24_PausedFadeAborts ==
  [][ /\ (last'.op = "fadeInterval" /\ last'.branch = "abort" /\ ~isPlaying) =>
           \A f \in fades :
             (/\ FadeBranch(Called, f) = "abort"
              /\ f.isCurrentlyPlaying
              /\ \E i \in 1..Len(activeSounds) : activeSounds[i].audio = f.old) =>
               /\ fadeInterval(Called, f).audios[f.old].paused
               /\ ~fadeInterval(Called, f).audios[f.old].src
               /\ fades' = {}
               /\ Swapped' # {}
               /\ \A i \in Swapped' : audios'[activeSounds'[i].audio].paused
               /\ \A l \in Subscribed : Len(CallsOf(log', l)) = 1
               /\ Len(log') = Len(listeners)
      /\ (~isPlaying /\ ~isPlaying' /\ last'.op \notin {"togglePlayPause", "playAllSounds", "toggleSound", "applyMix"}) =>
           \A i \in Swapped' :
             (\A j \in 1..Len(activeSounds) : audios[activeSounds[j].audio].paused)
               => audios'[activeSounds'[i].audio].paused ]_vars

\* a pause came while the crossfade of the track was in flight and the next
\* step of the fade has ended it: the incoming element is the element of the
\* track, paused, and the listener has been called once
C24_Witness ==
  /\ last = [op |-> "fadeInterval", branch |-> "abort"]
  /\ ~isPlaying
  /\ fades = {}
  /\ Len(listeners) = 1
  /\ Len(log) = 1
  /\ Swapped # {}
  /\ \A i \in Swapped : audios[activeSounds[i].audio].paused

\* C25: an operation that pauses or removes a track whose crossfade is in
\* flight (toggleSound off, togglePlayPause to paused, pauseAllSounds, cleanup)
\* leaves, in the state it returns in, no crossfade in flight, every element
\* paused, and every element that is not the element of a track released.
C25_StoppingATrackHaltsItsFade ==
  [][ /\ \/ last'.op \in {"pauseAllSounds", "cleanup"}
         \/ last'.op = "toggleSound" /\ last'.branch = "remove"
         \/ last'.op = "togglePlayPause" /\ isPlaying
      /\ \E f \in fades : \E i \in 1..Len(activeSounds) :
           activeSounds[i].audio = f.old /\ ~audios[f.old].paused
      =>
      /\ fades' = {}
      /\ \A h \in DOMAIN audios' :
           /\ audios'[h].paused
           /\ (\A i \in 1..Len(activeSounds') : activeSounds'[i].audio # h)
                => ~audios'[h].src ]_vars

\* toggleSound has just removed the only track while its crossfade was in
\* flight: the fade is still there and its incoming element plays
C25_Witness ==
  /\ last = [op |-> "toggleSound", branch |-> "remove"]
  /\ activeSounds = <<>>
  /\ \E f \in fades :
       /\ audios[f.old].paused /\ ~audios[f.old].src
       /\ ~audios[f.new].paused /\ audios[f.new].src

\* C26: the error events of one element make at most one replacement of it:
\* every listener is called at most once for them; the error events of an
\* element whose crossfade has begun replace nothing, create no element and call
\* no listener.
C26_RecoveryRunsOncePerElement ==
  [][last'.op = "error" =>
       /\ \A l \in Subscribed : Len(CallsOf(log', l)) <= 1
       /\ \A h \in DOMAIN audios :
            audios[h]._crossfadeTriggered =>
              /\ handleAudioError(Called, h).activeSounds = activeSounds
              /\ DOMAIN handleAudioError(Called, h).audios = DOMAIN audios
              /\ handleAudioError(Called, h).log = <<>> ]_vars

\* an element of a playing track has reported two errors: the listener was
\* called twice, the track holds the second replacement and the first one
\* plays on, held by no track
C26_Witness ==
  /\ last = [op |-> "error", branch |-> "twice"]
  /\ isPlaying
  /\ Len(listeners) = 1
  /\ Len(log) = 2
  /\ Len(activeSounds) = 1
  /\ \E h \in DOMAIN audios :
       /\ h # activeSounds[1].audio
       /\ ~audios[h].paused
       /\ audios[h].generation > 0

\* C27: the element of every track, however it became the element of the
\* track, has the timeupdate and error listeners of attachCrossfadeListener, the
\* ones that start the crossfade before the end of the media and hand the
\* incoming element to handleCrossfade; without them an element, whose loop
\* attribute is false, plays to its end once and stops.
C27_EveryTrackElementIsMonitored ==
  \A i \in 1..Len(activeSounds) : audios[activeSounds[i].audio].listener

\* applyMix has added a track to a playing session: its element plays and has
\* no listener
C27_Witness ==
  /\ last = [op |-> "applyMix", branch |-> "-"]
  /\ isPlaying
  /\ \E i \in 1..Len(activeSounds) :
       /\ ~audios[activeSounds[i].audio].listener
       /\ ~audios[activeSounds[i].audio].paused
       /\ audios[activeSounds[i].audio].src

\* C28: at most one interval of the countdown is live in every state, and it
\* is the one timerInterval holds; a setTimer with a bounded option leaves
\* exactly one, also when one was live before the call.
C28_AtMostOneTickLoop ==
  /\ intervals <= 1
  /\ timerInterval <=> intervals = 1
  /\ (last.op = "setTimer" /\ last.branch # "endless") =>
       (timerInterval /\ intervals = 1)

\* a bounded timer has been armed after the clock has advanced, and one
\* interval is live
C28_Witness ==
  /\ last = [op |-> "setTimer", branch |-> "5min"]
  /\ now > 0
  /\ timerEndTime = now + 5 * 60 * 1000
  /\ timerInterval
  /\ intervals = 1

\* C29: a toggleSound that adds a sound appends one track for it and leaves
\* the other tracks as they were; the volume of the new track is the percent
\* stored for the sound over 100 when soundStates has an entry for it, whatever
\* the percent (0 included), and 1.0 when it has none; soundStates then stores
\* that volume times 100 for the sound; the new element plays iff isPlaying, and
\* isPlaying does not change.
C29_AddTakesTheStoredVolume ==
  [][(last'.op = "toggleSound" /\ last'.branch = "add") =>
       /\ Len(activeSounds) < MAX_CONCURRENT_SOUNDS
       /\ Len(activeSounds') = Len(activeSounds) + 1
       /\ \A i \in 1..Len(activeSounds) :
            /\ activeSounds'[i].sound = activeSounds[i].sound
            /\ activeSounds'[i].volume = activeSounds[i].volume
       /\ \E s \in SoundIds :
            /\ FindIndex(activeSounds, s) = 0
            /\ activeSounds'[Len(activeSounds')].sound = s
            /\ activeSounds'[Len(activeSounds')].volume =
                 (IF s \in DOMAIN soundStates
                  THEN soundStates[s].volume \div Hundred
                  ELSE DefaultVolume)
            /\ s \in DOMAIN soundStates'
            /\ soundStates'[s].volume = activeSounds'[Len(activeSounds')].volume * Hundred
       /\ ~audios'[activeSounds'[Len(activeSounds')].audio].paused <=> isPlaying
       /\ isPlaying' = isPlaying ]_vars

\* toggleSound has added a second track to a playing session at volume 1.0
C29_Witness ==
  /\ last = [op |-> "toggleSound", branch |-> "add"]
  /\ isPlaying
  /\ Len(activeSounds) = 2
  /\ activeSounds[2].volume = DefaultVolume
  /\ soundStates[activeSounds[2].sound].volume = DefaultVolume * Hundred
  /\ ~audios[activeSounds[2].audio].paused

\* C30: togglePlayPause negates isPlaying; after it the element of every track
\* plays iff isPlaying, every entry of soundStates carries isPlaying as its
\* flag, and the tracks (sounds, order, volumes), the entries' volumes,
\* masterVolume and the timer fields are as before.
C30_PlayPauseFlipsEverything ==
  [][last'.op = "togglePlayPause" =>
       /\ isPlaying' = ~isPlaying
       /\ \A i \in 1..Len(activeSounds') :
            ~audios'[activeSounds'[i].audio].paused <=> isPlaying'
       /\ DOMAIN soundStates' = DOMAIN soundStates
       /\ \A k \in DOMAIN soundStates' :
            /\ soundStates'[k].isPlaying = isPlaying'
            /\ soundStates'[k].volume = soundStates[k].volume
       /\ Len(activeSounds') = Len(activeSounds)
       /\ \A i \in 1..Len(activeSounds) :
            /\ activeSounds'[i].sound = activeSounds[i].sound
            /\ activeSounds'[i].volume = activeSounds[i].volume
       /\ UNCHANGED <<masterVolume, timer, timeRemaining, timerEndTime>> ]_vars

\* togglePlayPause has paused a session of two tracks with a stored entry for a
\* sound that is not active
C30_Witness ==
  /\ last = [op |-> "togglePlayPause", branch |-> "-"]
  /\ ~isPlaying
  /\ Len(activeSounds) = 2
  /\ \A i \in 1..Len(activeSounds) : audios[activeSounds[i].audio].paused
  /\ \E k \in DOMAIN soundStates :
       /\ FindIndex(activeSounds, k) = 0
       /\ soundStates[k].isPlaying = FALSE

C32_OnlyTrackElementsPlay ==
  \A h \in DOMAIN audios :
    ~audios[h].paused =>
      \/ \E i \in 1..Len(activeSounds) : activeSounds[i].audio = h
      \/ \E f \in fades :
           /\ f.new = h
           /\ \E i \in 1..Len(activeSounds) : activeSounds[i].audio = f.old

\* a sound was toggled off and on again while its crossfade was pending: the
\* end of the old crossfade gave the new track the old incoming element, and
\* the element created for the new track plays on, held by no track and by no
\* crossfade
C32_Witness ==
  /\ phase = "ready"
  /\ last = [op |-> "fadeInterval", branch |-> "abort"]
  /\ isPlaying
  /\ fades = {}
  /\ Len(activeSounds) = 1
  /\ audios[activeSounds[1].audio].generation > 0
  /\ \E h \in DOMAIN audios :
       /\ h # activeSounds[1].audio
       /\ ~audios[h].paused
       /\ audios[h].generation = 0

\* the timer fields t, r, e of a state agree
TimerFieldsAgree(t, r, e) ==
  /\ t = "endless" <=> r = Null
  /\ r = Null <=> e = Null
  /\ r # Null => (0 <= r /\ r <= Minutes(t) * 60 * 1000)

\* C33: in every state, and in every state a listener is called with, timer is
\* "endless" iff timeRemaining is null iff timerEndTime is null, and a
\* timeRemaining that is not null lies between 0 and the minutes of the option
\* times 60000.
C33_TimerFieldsAgree ==
  /\ TimerFieldsAgree(timer, timeRemaining, timerEndTime)
  /\ \A i \in 1..Len(log) :
       TimerFieldsAgree(log[i].state.timer, log[i].state.timeRemaining,
                        log[i].state.timerEndTime)

\* a tick of a 15 minute countdown, 5 minutes after it was armed
C33_Witness ==
  /\ last = [op |-> "timerTick", branch |-> "update"]
  /\ timer = "15min"
  /\ timeRemaining = 10 * 60 * 1000
  /\ timerEndTime = 15 * 60 * 1000
  /\ Len(log) = 1

\* C34: in every state, isPlaying holds only when there is at least one track.
C34_PlayingNeedsATrack ==
  isPlaying => Len(activeSounds) > 0

\* togglePlayPause was called with no track: isPlaying is true and nothing
\* plays
C34_Witness ==
  /\ last = [op |-> "togglePlayPause", branch |-> "-"]
  /\ isPlaying
  /\ activeSounds = <<>>
  /\ \A h \in DOMAIN audios : audios[h].paused

\* C35: a crossfade in flight has made fewer than 60 steps, its outgoing
\* element is marked _crossfadeTriggered and is the outgoing element of no other
\* crossfade; a callback of its interval that is not the last one calls no
\* listener and keeps the crossfade; the last one (the abort, or the 60th step)
\* removes the crossfade and calls every listener exactly once when a track
\* holds the outgoing element, and never more than once; and every crossfade in
\* flight ends.
C35_EveryCrossfadeEndsOnce ==
  /\ [](\A f \in fades :
          /\ f.currentStep < fadeSteps
          /\ audios[f.old]._crossfadeTriggered
          /\ \A g \in fades : g.old = f.old => g = f)
  /\ [][last'.op = "fadeInterval" =>
          IF last'.branch = "step"
          THEN /\ log' = <<>>
               /\ Cardinality(fades') = Cardinality(fades)
          ELSE /\ Cardinality(fades') = Cardinality(fades) - 1
               /\ \A l \in Subscribed : Len(CallsOf(log', l)) <= 1
               /\ (\A f \in fades : \E i \in 1..Len(activeSounds) :
                     activeSounds[i].audio = f.old)
                    => \A l \in Subscribed : Len(CallsOf(log', l)) = 1]_vars
  /\ (fades # {}) ~> (fades = {})

\* a crossfade has made all its 60 steps and the listener was called once
C35_Witness ==
  /\ last = [op |-> "fadeInterval", branch |-> "complete"]
  /\ fades = {}
  /\ Len(listeners) = 1
  /\ Len(log) = 1
  /\ Swapped # {}

=============================================================================
